---- MODULE Spec2Model ----
(***************************************************************************)
(* Model of close_meshes.py: the mesh normalisation pipeline               *)
(* (simplify_mesh, select_largest_component, remove_ground_plane,          *)
(* MeshCloser.normalize_mesh) and the batch driver (MeshCloser.process,    *)
(* MeshCloser.close_mesh, MeshCloser.main).                                *)
(*                                                                         *)
(* A mesh is a record [vertices, triangles]: vertices is a sequence of     *)
(* integer points <<x, y, z>>, triangles a sequence of index triples.      *)
(* Indices are 1-based here (0-based in the code).  Real arithmetic is     *)
(* exact: a fraction is a record [num, den], and a bounding box carries    *)
(* the common denominator of its coordinates, so that no comparison is     *)
(* rounded.                                                                *)
(***************************************************************************)
EXTENDS Integers, Sequences, FiniteSets, TLC

\* ------------------------------------------------------------------------
\* Bounds of the model and constants of the program
\* ------------------------------------------------------------------------

\* Largest number of scan steps tried besides the default.
MaxScanSteps == 3

\* Default of --n_ground_plane_scan_steps.
DefaultScanSteps == 10

\* A crop with fewer vertices than this cannot bound a volume.
MinCropVertices == 4

\* A cluster needs more triangles, and more vertices, than this.
SizeFloor == 6

\* ------------------------------------------------------------------------
\* Sequences and sets
\* ------------------------------------------------------------------------

IndexSeq(n) == [i \in 1..n |-> i]

SeqToSet(s) == {s[i] : i \in 1..Len(s)}

MinOf(S) == CHOOSE x \in S : \A y \in S : x <= y

MaxOf(S) == CHOOSE x \in S : \A y \in S : x >= y

\* The elements of the set of naturals S in increasing order.
SortedSeq(S) == SelectSeq(IndexSeq(IF S = {} THEN 0 ELSE MaxOf(S)), LAMBDA i : i \in S)

\* The position of i among the elements of S (i \in S), counted from 1.
Rank(S, i) == Cardinality({j \in S : j <= i})

\* ------------------------------------------------------------------------
\* Meshes (open3d.geometry.TriangleMesh) and axis-aligned boxes
\* ------------------------------------------------------------------------

NewMesh(vs, ts) == [vertices |-> vs, triangles |-> ts]

EmptyMesh == NewMesh(<<>>, <<>>)

NVertices(M) == Len(M.vertices)

NTriangles(M) == Len(M.triangles)

Coords(M, a) == {M.vertices[i][a] : i \in 1..NVertices(M)}

\* TriangleMesh.get_min_bound: the zero vector for a mesh without vertices.
GetMinBound(M) ==
    IF NVertices(M) = 0 THEN <<0, 0, 0>> ELSE [a \in 1..3 |-> MinOf(Coords(M, a))]

\* TriangleMesh.get_max_bound.
GetMaxBound(M) ==
    IF NVertices(M) = 0 THEN <<0, 0, 0>> ELSE [a \in 1..3 |-> MaxOf(Coords(M, a))]

\* AxisAlignedBoundingBox.get_extent of the mesh's box.
GetExtent(M) == [a \in 1..3 |-> GetMaxBound(M)[a] - GetMinBound(M)[a]]

\* get_axis_aligned_bounding_box().volume(): the product of the extents.
AABBVolume(M) == GetExtent(M)[1] * GetExtent(M)[2] * GetExtent(M)[3]

\* get_axis_aligned_bounding_box(), its coordinates in units of 1/den.
GetAxisAlignedBoundingBox(M, den) ==
    [min_bound |-> [a \in 1..3 |-> GetMinBound(M)[a] * den],
     max_bound |-> [a \in 1..3 |-> GetMaxBound(M)[a] * den],
     den       |-> den]

\* AxisAlignedBoundingBox.translate along the y axis by t/den.
Translate(bb, t) ==
    [bb EXCEPT !.min_bound[2] = @ + t, !.max_bound[2] = @ + t]

\* The vertices referenced by the triangles numbered in ts.
Referenced(M, ts) == UNION {SeqToSet(M.triangles[t]) : t \in ts}

\* The mesh made of the vertices numbered in vs and the triangles numbered in
\* ts (which use only vertices of vs), each in its original order, with the
\* triangles re-indexed onto the kept vertices.
SubMesh(M, vs, ts) ==
    LET keptV == SortedSeq(vs)
        keptT == SortedSeq(ts)
    IN  NewMesh([j \in 1..Len(keptV) |-> M.vertices[keptV[j]]],
                [j \in 1..Len(keptT) |->
                    [c \in 1..3 |-> Rank(vs, M.triangles[keptT[j]][c])]])

\* TriangleMesh.remove_unreferenced_vertices.
RemoveUnreferencedVertices(M) ==
    SubMesh(M, Referenced(M, 1..NTriangles(M)), 1..NTriangles(M))

\* TriangleMesh.remove_triangles_by_mask: mask[t] says triangle t goes.
RemoveTrianglesByMask(M, mask) ==
    SubMesh(M, 1..NVertices(M), {t \in 1..NTriangles(M) : ~mask[t]})

\* AxisAlignedBoundingBox.get_point_indices_within_bounding_box (inclusive).
PointIndicesWithin(M, bb) ==
    {i \in 1..NVertices(M) :
        \A a \in 1..3 : /\ bb.min_bound[a] <= M.vertices[i][a] * bb.den
                        /\ M.vertices[i][a] * bb.den <= bb.max_bound[a]}

\* TriangleMesh.select_by_index with cleanup: the selected vertices, the
\* triangles whose three vertices are all selected, then the vertices no
\* triangle references dropped.
SelectByIndex(M, vs) ==
    RemoveUnreferencedVertices(
        SubMesh(M, vs, {t \in 1..NTriangles(M) : SeqToSet(M.triangles[t]) \subseteq vs}))

\* TriangleMesh.crop(bounding_box).
Crop(M, bb) == SelectByIndex(M, PointIndicesWithin(M, bb))

\* ------------------------------------------------------------------------
\* Input meshes
\* ------------------------------------------------------------------------

\* A closed stack of square rings: ring r is rings[r] = <<y, w>>, the square
\* of side w at height y; consecutive rings are joined by 8 side triangles,
\* and the lowest and the highest ring are capped by 2 triangles each.
StackVertices(rings) ==
    [j \in 1..(4 * Len(rings)) |->
        LET r == (j - 1) \div 4 + 1
            c == (j - 1) % 4
            y == rings[r][1]
            w == rings[r][2]
        IN  CASE c = 0 -> <<0, y, 0>>
              [] c = 1 -> <<w, y, 0>>
              [] c = 2 -> <<w, y, w>>
              [] OTHER -> <<0, y, w>>]

StackSides(n) ==
    [j \in 1..(8 * (n - 1)) |->
        LET r  == (j - 1) \div 8
            c  == ((j - 1) % 8) \div 2
            a  == 4 * r + c + 1
            a2 == 4 * r + ((c + 1) % 4) + 1
        IN  IF (j - 1) % 2 = 0 THEN <<a, a2, a2 + 4>> ELSE <<a, a2 + 4, a + 4>>]

Stack(rings) ==
    LET n == Len(rings)
        b == 4 * (n - 1)
    IN  NewMesh(StackVertices(rings),
                <<<<1, 2, 3>>, <<1, 3, 4>>>> \o StackSides(n)
                    \o <<<<b + 1, b + 2, b + 3>>, <<b + 1, b + 3, b + 4>>>>)

\* A box of side w and height h: 8 vertices, 12 triangles.
Box(w, h) == Stack(<<<<0, w>>, <<h, w>>>>)

\* 4 vertices, 4 triangles.
Tetrahedron ==
    NewMesh(<<<<0, 0, 0>>, <<1, 0, 0>>, <<0, 1, 0>>, <<0, 0, 1>>>>,
            <<<<1, 2, 3>>, <<1, 2, 4>>, <<1, 3, 4>>, <<2, 3, 4>>>>)

\* 6 vertices, 8 triangles.
Octahedron ==
    NewMesh(<<<<0, 1, 1>>, <<2, 1, 1>>, <<1, 0, 1>>, <<1, 2, 1>>, <<1, 1, 0>>, <<1, 1, 2>>>>,
            <<<<1, 3, 5>>, <<1, 3, 6>>, <<1, 4, 5>>, <<1, 4, 6>>,
              <<2, 3, 5>>, <<2, 3, 6>>, <<2, 4, 5>>, <<2, 4, 6>>>>)

\* A bipyramid over the rim points: Len(rim) + 2 vertices, 2 * Len(rim)
\* triangles.
Bipyramid(rim, low, high) ==
    LET n == Len(rim)
    IN  NewMesh(rim \o <<low, high>>,
                [j \in 1..(2 * n) |->
                    LET i == ((j - 1) % n) + 1
                    IN  <<i, (i % n) + 1, IF j <= n THEN n + 1 ELSE n + 2>>])

\* 7 vertices, 10 triangles.
PentaBipyramid ==
    Bipyramid(<<<<2, 1, 0>>, <<4, 1, 2>>, <<3, 1, 4>>, <<1, 1, 4>>, <<0, 1, 2>>>>,
              <<2, 0, 2>>, <<2, 2, 2>>)

\* A strip of n triangles over n + 2 vertices.
Strip(n) ==
    NewMesh([j \in 1..(n + 2) |-> <<(j - 1) \div 2, (j - 1) % 2, 0>>],
            [j \in 1..n |-> <<j, j + 1, j + 2>>])

\* A planar sheet in the plane z = 0: 6 vertices, 4 triangles, no volume.
Wall ==
    NewMesh(<<<<0, 0, 0>>, <<4, 0, 0>>, <<0, 2, 0>>, <<4, 2, 0>>, <<0, 8, 0>>, <<4, 8, 0>>>>,
            <<<<1, 2, 3>>, <<2, 4, 3>>, <<3, 4, 5>>, <<4, 6, 5>>>>)

\* A planar sheet in the plane y = 0: no height, no volume.
Floor ==
    NewMesh(<<<<0, 0, 0>>, <<4, 0, 0>>, <<0, 0, 4>>, <<4, 0, 4>>>>,
            <<<<1, 2, 3>>, <<2, 4, 3>>>>)

\* M moved by the vector d.
Moved(M, d) ==
    NewMesh([i \in 1..NVertices(M) |-> [a \in 1..3 |-> M.vertices[i][a] + d[a]]],
            M.triangles)

Shifted(ts, k) == [t \in 1..Len(ts) |-> [c \in 1..3 |-> ts[t][c] + k]]

\* The triangles of s and of t taken in turn, while both last.
RECURSIVE Alternate(_, _)
Alternate(s, t) ==
    IF s = <<>> THEN t
    ELSE IF t = <<>> THEN s
    ELSE <<Head(s), Head(t)>> \o Alternate(Tail(s), Tail(t))

\* Both meshes in one: the triangles of B after those of A, or mixed with them.
Joined(A, B, mixed) ==
    LET tb == Shifted(B.triangles, NVertices(A))
    IN  NewMesh(A.vertices \o B.vertices,
                IF mixed THEN Alternate(A.triangles, tb) ELSE A.triangles \o tb)

\* A building on a ground slab: the slab fills the heights 0..1 over a foot
\* of side 10, the building the heights 2..10 over a foot of side 2.
SlabBuilding == Stack(<<<<0, 10>>, <<1, 10>>, <<2, 2>>, <<6, 2>>, <<10, 2>>>>)

\* A tower with no slab, its lower rings close to each other.
Tower == Stack(<<<<0, 2>>, <<1, 2>>, <<2, 2>>, <<3, 2>>, <<10, 2>>>>)

\* A low box with a lone triangle high above it.
Spire ==
    Joined(Box(2, 1),
           NewMesh(<<<<0, 10, 0>>, <<2, 10, 0>>, <<0, 10, 2>>>>, <<<<1, 2, 3>>>>), FALSE)

\* A low box with a flat sheet high above it: cropped above the box, the mesh
\* is the sheet, which has 4 vertices and no volume.
Canopy == Joined(Box(4, 1), Moved(Floor, <<0, 10, 0>>), FALSE)

\* A mesh with a vertex no triangle references.
WithStrayVertex(M) == NewMesh(M.vertices \o <<<<1, 1, 1>>>>, M.triangles)

GroundPlaneInputs ==
    {SlabBuilding, Tower, Spire, Canopy, Box(2, 4), Tetrahedron, Wall, Floor, EmptyMesh,
     WithStrayVertex(Tower), WithStrayVertex(SlabBuilding),
     Joined(SlabBuilding, Moved(Octahedron, <<20, 0, 20>>), TRUE)}

\* --max_scan_height_fraction: the default 0.15, and larger ones.
HeightFractions == {[num |-> 3, den |-> 20], [num |-> 1, den |-> 2], [num |-> 1, den |-> 1]}

\* --volume_reduction_threshold: the default 0.8, and a smaller one.
Thresholds == {[num |-> 4, den |-> 5], [num |-> 1, den |-> 2]}

\* --n_ground_plane_scan_steps.
ScanSteps == (1..MaxScanSteps) \cup {DefaultScanSteps}

\* ------------------------------------------------------------------------
\* remove_ground_plane
\* ------------------------------------------------------------------------

\* The arguments of one call of remove_ground_plane.
GPArgs(M, n, frac, thr) ==
    [M |-> M, n_scan_steps |-> n, max_scan_height_fraction |-> frac,
     volume_reduction_threshold |-> thr]

\* max_dy = bb.get_extent()[1] * max_scan_height_fraction
MaxDy(args) ==
    [num |-> GetExtent(args.M)[2] * args.max_scan_height_fraction.num,
     den |-> args.max_scan_height_fraction.den]

\* dy = max_dy / n_scan_steps
Dy(args) == [num |-> MaxDy(args).num, den |-> MaxDy(args).den * args.n_scan_steps]

\* What bb holds after bb_translate = bb.translate(...): translate moves the
\* box in place and returns it, so bb is bb_translate.
BBAfterTranslateCopy(bb, bb_translate) == bb

BBAfterTranslate(bb, bb_translate) == bb_translate

\* len(M_cropped.vertices) < 4
TooFewVertices(M_cropped) == NVertices(M_cropped) < MinCropVertices

\* (new_volume / prev_volume) < volume_reduction_threshold, for prev_volume > 0
BelowThreshold(new_volume, prev_volume, thr) ==
    new_volume * thr.den < thr.num * prev_volume

\* prev_volume = new_volume
PrevVolumeKept(prev_volume, new_volume) == prev_volume

NextPrevVolume(prev_volume, new_volume) == new_volume

\* return M, False
CroppedInstead(M, M_cropped) == M_cropped

NotFoundMesh(M, M_cropped) == M

\* The locals of the call before the loop; bb is kept in units of 1/dy.den.
GPEnter(args) ==
    [pc          |-> "loop",
     exit        |-> "none",
     k           |-> 0,
     bb          |-> GetAxisAlignedBoundingBox(args.M, Dy(args).den),
     dy          |-> Dy(args),
     prev_volume |-> AABBVolume(args.M),
     M_cropped   |-> EmptyMesh,
     mesh        |-> EmptyMesh,
     found       |-> FALSE]

\* One pass through the body of the loop, the k-th when fr.k = k - 1.
GPLoopBody(args, fr) ==
    LET bb_translate == Translate(fr.bb, fr.dy.num)
        M_cropped    == Crop(args.M, bb_translate)
        new_volume   == AABBVolume(M_cropped)
        at == [fr EXCEPT !.k = fr.k + 1,
                         !.bb = BBAfterTranslate(fr.bb, bb_translate),
                         !.M_cropped = M_cropped]
    IN  IF TooFewVertices(M_cropped)
        THEN [at EXCEPT !.pc = "returned", !.exit = "break",
                        !.mesh = NotFoundMesh(args.M, M_cropped), !.found = FALSE]
        ELSE IF fr.prev_volume = 0
        THEN [at EXCEPT !.pc = "raised", !.exit = "ZeroDivisionError"]
        ELSE IF BelowThreshold(new_volume, fr.prev_volume, args.volume_reduction_threshold)
        THEN [at EXCEPT !.pc = "returned", !.exit = "fired",
                        !.mesh = M_cropped, !.found = TRUE]
        ELSE [at EXCEPT !.prev_volume = NextPrevVolume(fr.prev_volume, new_volume)]

\* The loop has run n_scan_steps times: return M, False.
GPAfterLoop(args, fr) ==
    [fr EXCEPT !.pc = "returned", !.exit = "exhausted",
               !.mesh = NotFoundMesh(args.M, fr.M_cropped), !.found = FALSE]

GPStep(args, fr) ==
    IF fr.k < args.n_scan_steps THEN GPLoopBody(args, fr) ELSE GPAfterLoop(args, fr)

RECURSIVE GPRun(_, _)
GPRun(args, fr) == IF fr.pc = "loop" THEN GPRun(args, GPStep(args, fr)) ELSE fr

\* The whole call: the locals when it returns or raises.
RemoveGroundPlane(M, n, frac, thr) ==
    LET args == GPArgs(M, n, frac, thr) IN GPRun(args, GPEnter(args))

\* ------------------------------------------------------------------------
\* select_largest_component
\* ------------------------------------------------------------------------

\* Two triangles are neighbours when they share an edge.
Adjacent(M, s, t) ==
    s # t /\ Cardinality(SeqToSet(M.triangles[s]) \cap SeqToSet(M.triangles[t])) >= 2

\* The triangles reachable from those of S through neighbours.
RECURSIVE Reachable(_, _, _)
Reachable(M, S, frontier) ==
    LET new == {t \in (1..NTriangles(M)) \ S : \E s \in frontier : Adjacent(M, s, t)}
    IN  IF new = {} THEN S ELSE Reachable(M, S \cup new, new)

\* Clusters are numbered from 0 in the order of their first triangle.
RECURSIVE LabelClusters(_, _, _, _)
LabelClusters(M, t, labels, next) ==
    IF t > NTriangles(M) THEN labels
    ELSE IF labels[t] >= 0 THEN LabelClusters(M, t + 1, labels, next)
    ELSE LET members == Reachable(M, {t}, {t})
         IN  LabelClusters(M, t + 1,
                           [u \in 1..NTriangles(M) |->
                               IF u \in members THEN next ELSE labels[u]],
                           next + 1)

\* TriangleMesh.cluster_connected_triangles: the cluster of each triangle and
\* the number of triangles of each cluster.
ClusterConnectedTriangles(M) ==
    LET labels == LabelClusters(M, 1, [t \in 1..NTriangles(M) |-> -1], 0)
        n      == IF NTriangles(M) = 0 THEN 0 ELSE MaxOf(SeqToSet(labels)) + 1
    IN  [triangle_clusters   |-> labels,
         cluster_n_triangles |->
             [c \in 1..n |-> Cardinality({t \in 1..NTriangles(M) : labels[t] = c - 1})]]

\* triangles_to_remove = triangle_clusters != cluster
RemoveTheCluster(triangle_clusters, cluster) ==
    [t \in 1..Len(triangle_clusters) |-> triangle_clusters[t] = cluster]

TrianglesToRemove(triangle_clusters, cluster) ==
    [t \in 1..Len(triangle_clusters) |-> triangle_clusters[t] # cluster]

\* n_triangles <= 6
TooFewTriangles(n_triangles) == n_triangles <= SizeFloor

\* len(M_single_component.vertices) <= 6
FewerThanFloorVertices(M_single_component) == NVertices(M_single_component) < SizeFloor

TooFewClusterVertices(M_single_component) == NVertices(M_single_component) <= SizeFloor

\* np.argmax: the first place of the largest value (counted from 1 here).
LastArgMax(s) ==
    CHOOSE i \in 1..Len(s) : (\A j \in 1..Len(s) : s[j] <= s[i])
                              /\ (\A j \in (i + 1)..Len(s) : s[j] < s[i])

ArgMax(s) ==
    CHOOSE i \in 1..Len(s) : (\A j \in 1..Len(s) : s[j] <= s[i])
                              /\ (\A j \in 1..(i - 1) : s[j] < s[i])

\* The locals of a call of select_largest_component before its loop.
\* cluster_ids is not in the code: the cluster each entry of cluster_meshes
\* comes from.
SelEnter(M) ==
    LET cl == ClusterConnectedTriangles(M)
    IN  [pc                  |-> "loop",
         M                   |-> M,
         triangle_clusters   |-> cl.triangle_clusters,
         cluster_n_triangles |-> cl.cluster_n_triangles,
         cluster             |-> 0,
         cluster_volumes     |-> <<>>,
         cluster_meshes      |-> <<>>,
         cluster_ids         |-> <<>>,
         mesh                |-> EmptyMesh]

\* One pass through the body of the loop, for cluster fr.cluster.  volume is
\* what get_minimal_oriented_bounding_box(robust=True).volume() gives for the
\* mesh of the cluster, if it is asked.
SelLoopBody(fr, volume) ==
    LET next == [fr EXCEPT !.cluster = fr.cluster + 1]
    IN  IF TooFewTriangles(fr.cluster_n_triangles[fr.cluster + 1])
        THEN next
        ELSE LET triangles_to_remove == TrianglesToRemove(fr.triangle_clusters, fr.cluster)
                 M_single_component ==
                     RemoveUnreferencedVertices(
                         RemoveTrianglesByMask(fr.M, triangles_to_remove))
             IN  IF TooFewClusterVertices(M_single_component)
                 THEN next
                 ELSE [next EXCEPT
                         !.cluster_volumes = Append(fr.cluster_volumes, volume),
                         !.cluster_meshes  = Append(fr.cluster_meshes, M_single_component),
                         !.cluster_ids     = Append(fr.cluster_ids, fr.cluster)]

\* return M
NoViableComponentMesh(M) == M

\* After the loop: the fallback, or the mesh of the largest volume.
SelAfterLoop(fr) ==
    [fr EXCEPT !.pc = "returned",
               !.mesh = IF Len(fr.cluster_meshes) = 0
                        THEN NoViableComponentMesh(fr.M)
                        ELSE fr.cluster_meshes[ArgMax(fr.cluster_volumes)]]

RECURSIVE SelRun(_, _)
SelRun(fr, obb) ==
    IF fr.pc # "loop" THEN fr
    ELSE IF fr.cluster < Len(fr.cluster_n_triangles)
    THEN SelRun(SelLoopBody(fr, obb[fr.cluster]), obb)
    ELSE SelRun(SelAfterLoop(fr), obb)

\* The whole call, obb[c] being the oriented-bounding-box volume of cluster c.
SelectLargestComponent(M, obb) == SelRun(SelEnter(M), obb)

\* Largest volume an oriented bounding box is given in the model.
MaxVolume == 1

\* What an oriented-bounding-box volume may be.
Volumes == 0..MaxVolume

\* Largest number of fragments of an input of select_largest_component.
MaxFragments == 3

FragmentKinds == {Strip(7), PentaBipyramid, Strip(6), Octahedron, Tetrahedron}

\* The fragments of fs side by side, 20 apart.
RECURSIVE Assembled(_, _, _)
Assembled(fs, i, mixed) ==
    IF i > Len(fs) THEN EmptyMesh
    ELSE Joined(Moved(fs[i], <<20 * i, 0, 0>>), Assembled(fs, i + 1, mixed), mixed)

SelectInputs ==
    LET lists == UNION {[1..n -> FragmentKinds] : n \in 0..MaxFragments}
    IN  {Assembled(fs, 1, mixed) : fs \in lists, mixed \in BOOLEAN}
        \cup {WithStrayVertex(Assembled(fs, 1, FALSE)) : fs \in lists}


\* ------------------------------------------------------------------------
\* simplify_mesh
\* ------------------------------------------------------------------------

\* Default of --n_simplification_voxels.
DefaultSimplificationVoxels == 128

\* A coarse grid, on which vertices merge.
CoarseSimplificationVoxels == 4

\* voxel_size = max(M.get_max_bound() - M.get_min_bound()) / n_simplication_voxels
VoxelSize(M, n_simplication_voxels) ==
    [num |-> MaxOf({GetExtent(M)[a] : a \in 1..3}), den |-> n_simplication_voxels]

\* The voxel of point v: floor((v - (min_bound - voxel_size / 2)) / voxel_size).
VoxelIndex(M, vs, v) ==
    [a \in 1..3 |-> ((v[a] - GetMinBound(M)[a]) * 2 * vs.den + vs.num) \div (2 * vs.num)]

RECURSIVE SumOf(_, _, _)
SumOf(M, S, a) ==
    IF S = {} THEN 0
    ELSE LET i == MinOf(S) IN M.vertices[i][a] + SumOf(M, S \ {i}, a)

\* SimplificationContraction.Average: the mean of the vertices numbered in S,
\* kept on the integer grid (rounded down).
Average(M, S) == [a \in 1..3 |-> SumOf(M, S, a) \div Cardinality(S)]

\* A triangle turned so that its smallest index comes first.
MinFirst(tri) ==
    IF tri[2] < tri[1] /\ tri[2] < tri[3] THEN <<tri[2], tri[3], tri[1]>>
    ELSE IF tri[3] < tri[1] /\ tri[3] < tri[2] THEN <<tri[3], tri[1], tri[2]>>
    ELSE tri

\* The triangles of ts that connect three different vertices, each once.
DistinctTriangles(ts) ==
    SelectSeq([t \in 1..Len(ts) |->
                  IF /\ Cardinality(SeqToSet(ts[t])) = 3
                     /\ \A u \in 1..(t - 1) : ts[u] # ts[t]
                  THEN ts[t] ELSE <<>>],
              LAMBDA tri : tri # <<>>)

\* The vertices of M merged voxel by voxel: vox[i] is the voxel of vertex i,
\* first the first vertex of each voxel in order.  A triangle index outside
\* the vertex sequence reads memory that is not a vertex: it lands on the
\* merged vertex `stray`.
MergedMesh(M, vox, first, stray) ==
    LET new(i) == IF i \in 1..NVertices(M)
                  THEN CHOOSE k \in 1..Len(first) : vox[first[k]] = vox[i]
                  ELSE stray
    IN  CHOOSE S \in {NewMesh([k \in 1..Len(first) |->
                                 Average(M, {j \in 1..NVertices(M) : vox[j] = vox[first[k]]})],
                              DistinctTriangles(ts))
                      : ts \in {[t \in 1..NTriangles(M) |->
                                   MinFirst([c \in 1..3 |-> new(M.triangles[t][c])])]}} : TRUE

FirstOfVoxels(vox) == {i \in 1..Len(vox) : \A j \in 1..(i - 1) : vox[j] # vox[i]}

\* M.simplify_vertex_clustering(voxel_size, contraction=Average), voxel_size > 0.
VoxelOf(M, vs) == [i \in 1..NVertices(M) |-> VoxelIndex(M, vs, M.vertices[i])]

SimplifyVertexClustering(M, vs, stray) ==
    CHOOSE S \in {MergedMesh(M, vox, first, stray) :
                      vox \in {VoxelOf(M, vs)}, first \in {SortedSeq(FirstOfVoxels(VoxelOf(M, vs)))}} : TRUE

\* The number of vertices simplify_vertex_clustering leaves.
MergedCount(M, vs) ==
    Cardinality(FirstOfVoxels([i \in 1..NVertices(M) |-> VoxelIndex(M, vs, M.vertices[i])]))

\* Some triangle of M names a vertex M does not have.
HasBadIndex(M) ==
    \E t \in 1..NTriangles(M) : ~(SeqToSet(M.triangles[t]) \subseteq 1..NVertices(M))

\* The mesh has no vertex, or a triangle index outside its vertices.
Malformed(M) == NVertices(M) = 0 \/ HasBadIndex(M)

\* ------------------------------------------------------------------------
\* MeshCloser.normalize_mesh
\* ------------------------------------------------------------------------

NormArgs(mesh, voxels, n, frac, thr) ==
    [mesh |-> mesh, n_simplification_voxels |-> voxels, n_ground_plane_scan_steps |-> n,
     ground_plane_max_scan_height_fraction |-> frac,
     ground_plane_volume_reduction_threshold |-> thr]

\* if found_ground_plane:
Always(found_ground_plane) == TRUE

NeedsSecondPass(found_ground_plane) == found_ground_plane

\* trimesh.Trimesh(vertices, faces), which processes what it is given: the
\* vertices no face references go, and vertices at the same point become one
\* (the first).
TrimeshOf(M) ==
    LET R        == RemoveUnreferencedVertices(M)
        firsts   == {i \in 1..NVertices(R) : \A j \in 1..(i - 1) : R.vertices[j] # R.vertices[i]}
        rep(i)   == MinOf({j \in firsts : R.vertices[j] = R.vertices[i]})
    IN  NewMesh([k \in 1..Cardinality(firsts) |-> R.vertices[SortedSeq(firsts)[k]]],
                [t \in 1..NTriangles(R) |-> [c \in 1..3 |-> Rank(firsts, rep(R.triangles[t][c]))]])

\* The locals of normalize_mesh on entry: M = mesh.as_open3d.  trace is not in
\* the code: the stages run so far, each with the mesh it was given, the mesh
\* it gave back, whether it returned (ok) and what remove_ground_plane found.
NormEnter(args) ==
    [pc |-> "simplify", M |-> args.mesh, found_ground_plane |-> FALSE,
     trace |-> <<>>, result |-> EmptyMesh]

Ran(stage, input, output, ok, found) ==
    [stage |-> stage, input |-> input, output |-> output, ok |-> ok, found |-> found]

\* A stage raised: normalize_mesh raises.
NormRaised(fr, stage, error) ==
    [fr EXCEPT !.pc = error, !.trace = Append(@, Ran(stage, fr.M, EmptyMesh, FALSE, FALSE))]

\* A stage returned the mesh out; normalize_mesh goes on at pc.
NormDone(fr, stage, out, found, pc) ==
    [fr EXCEPT !.pc = pc, !.M = out, !.found_ground_plane = found,
               !.trace = Append(@, Ran(stage, fr.M, out, TRUE, found))]

\* M = simplify_mesh(M, self.n_simplification_voxels): the frames it may leave.
\* A voxel size of 0 is refused by simplify_vertex_clustering; a triangle index
\* outside the vertices makes it read outside the vertex array, which stops
\* the process or yields some merged vertex.
NormSimplifyOutcomes(fr, args) ==
    LET vs == VoxelSize(fr.M, args.n_simplification_voxels)
    IN  IF vs.num = 0
        THEN {NormRaised(fr, "simplify", "raised")}
        ELSE IF HasBadIndex(fr.M)
        THEN {NormRaised(fr, "simplify", "crashed")}
             \cup {NormDone(fr, "simplify", SimplifyVertexClustering(fr.M, vs, stray),
                            FALSE, "select")
                   : stray \in 1..MergedCount(fr.M, vs)}
        ELSE {NormDone(fr, "simplify", SimplifyVertexClustering(fr.M, vs, 1), FALSE, "select")}

\* M = select_largest_component(M), whatever the oriented-box volumes are.
NormSelectOutcomes(fr, pc) ==
    LET n == Len(ClusterConnectedTriangles(fr.M).cluster_n_triangles)
    IN  {NormDone(fr, "select", SelectLargestComponent(fr.M, obb).mesh,
                  fr.found_ground_plane, pc)
         : obb \in [0..(n - 1) -> Volumes]}

\* M, found_ground_plane = remove_ground_plane(M, ...), and the test of
\* found_ground_plane that follows it.
NormGroundOutcome(fr, args) ==
    LET gpr == RemoveGroundPlane(fr.M, args.n_ground_plane_scan_steps,
                                 args.ground_plane_max_scan_height_fraction,
                                 args.ground_plane_volume_reduction_threshold)
    IN  IF gpr.pc = "raised"
        THEN NormRaised(fr, "ground", "raised")
        ELSE NormDone(fr, "ground", gpr.mesh, gpr.found,
                      IF NeedsSecondPass(gpr.found) THEN "select_again" ELSE "return")

\* return trimesh.Trimesh(np.array(M.vertices), np.array(M.triangles))
NormReturnOutcome(fr) == [fr EXCEPT !.pc = "returned", !.result = TrimeshOf(fr.M)]

\* The frames one step of normalize_mesh may lead to.
NormOutcomes(fr, args) ==
    CASE fr.pc = "simplify"     -> NormSimplifyOutcomes(fr, args)
      [] fr.pc = "select"       -> NormSelectOutcomes(fr, "ground")
      [] fr.pc = "ground"       -> {NormGroundOutcome(fr, args)}
      [] fr.pc = "select_again" -> NormSelectOutcomes(fr, "return")
      [] fr.pc = "return"       -> {NormReturnOutcome(fr)}
      [] OTHER                  -> {}

\* The frames normalize_mesh may end in, from the frames frs.
RECURSIVE NormEnds(_, _)
NormEnds(frs, args) ==
    LET running == {fr \in frs : NormOutcomes(fr, args) # {}}
    IN  IF running = {} THEN frs
        ELSE NormEnds((frs \ running) \cup UNION {NormOutcomes(fr, args) : fr \in running},
                      args)

\* Two buildings on one ground slab, each joined to it by triangles.
TwoBuildings ==
    LET A == SlabBuilding
        B == Moved(Box(1, 3), <<6, 2, 6>>)
        n == NVertices(A)
        J == Joined(A, B, FALSE)
    IN  NewMesh(J.vertices, J.triangles \o <<<<5, 6, n + 1>>, <<6, n + 1, n + 2>>>>)

\* A box with one triangle that names a vertex the box does not have.
BadIndexBox == NewMesh(Box(2, 2).vertices, Box(2, 2).triangles \o <<<<1, 2, 9>>>>)

\* A single vertex and no triangle.
OnePoint == NewMesh(<<<<1, 1, 1>>>>, <<>>)

NormInputs ==
    {SlabBuilding, TwoBuildings, Tower, Wall, Tetrahedron,
     Joined(SlabBuilding, Moved(Octahedron, <<20, 0, 20>>), TRUE),
     WithStrayVertex(Tower), EmptyMesh, OnePoint, BadIndexBox}

SimplificationVoxels == {DefaultSimplificationVoxels, CoarseSimplificationVoxels}

\* ------------------------------------------------------------------------
\* MeshCloser.process, MeshCloser.close_mesh and MeshCloser.main
\* ------------------------------------------------------------------------

\* The number of *.obj files in the input directory.
NFiles == 3

\* max_workers = os.cpu_count() or 4: the threads of the pool.
MaxWorkers == 2

Files == 1..NFiles

\* What is at a path: nothing, or a file holding a mesh.
NoFile == [exists |-> FALSE, mesh |-> EmptyMesh]

FileOf(mesh) == [exists |-> TRUE, mesh |-> mesh]

\* The meshes ./bin/manifold may leave: one normalize_mesh returns for, and a
\* flat one on which remove_ground_plane raises.
BatchMeshes == {SlabBuilding, Floor}

\* The options of MeshCloser at their defaults.
DefaultArgs(mesh) ==
    NormArgs(mesh, DefaultSimplificationVoxels, DefaultScanSteps,
             [num |-> 3, den |-> 20], [num |-> 4, den |-> 5])

\* self.normalize_mesh(mesh): how it may end (returned, raised or crashed) and
\* the mesh it returns.
NormalizeOutcomes ==
    [mesh \in BatchMeshes |->
        {[pc |-> e.pc, result |-> e.result]
         : e \in NormEnds({NormEnter(DefaultArgs(mesh))}, DefaultArgs(mesh))}]

\* An input file, by what the run will meet for it: the exit status of
\* ./bin/manifold, what manifold leaves at close_output_path (a failed run may
\* leave nothing, or a file that loads), and whether output_path exists
\* before the run.
FileKinds ==
    {[returncode |-> 0, closed |-> FileOf(mesh), output_exists |-> FALSE]
     : mesh \in BatchMeshes}
    \cup {[returncode |-> 0, closed |-> FileOf(SlabBuilding), output_exists |-> TRUE]}
    \cup {[returncode |-> 1, closed |-> c, output_exists |-> FALSE]
          : c \in {NoFile} \cup {FileOf(mesh) : mesh \in BatchMeshes}}

\* main after thread_map submitted one future per file, none started.
\* future and pc are the state of each file's future and of its call of
\* process; output and closed what is at output_path and close_output_path;
\* mesh the local of process; printed whether close_mesh printed its failure.
\* loaded, normalized and wrote are not in the code: whether trimesh.load
\* returned a mesh, normalize_mesh returned, and the output was written.
BatchEnter(fs) ==
    [future     |-> [f \in Files |-> "pending"],
     pc         |-> [f \in Files |-> "queued"],
     output     |-> [f \in Files |-> fs[f].output_exists],
     closed     |-> [f \in Files |-> NoFile],
     mesh       |-> [f \in Files |-> EmptyMesh],
     printed    |-> [f \in Files |-> FALSE],
     loaded     |-> [f \in Files |-> FALSE],
     normalized |-> [f \in Files |-> FALSE],
     wrote      |-> [f \in Files |-> FALSE],
     main       |-> [pc |-> "map", i |-> 1, written |-> 0]]

\* process(f) raises: its future holds the exception.
Raises(b, f) == [b EXCEPT !.future[f] = "raised", !.pc[f] = "raised"]

\* return output_path
Returns(b, f) == [b EXCEPT !.future[f] = "finished", !.pc[f] = "returned"]

\* The futures a thread of the pool is running.
Running(b) == {f \in Files : b.future[f] = "running"}

\* The futures still in the work queue.
Pending(b) == {f \in Files : b.future[f] = "pending"}

\* Executor.map's result iterator, leaving on an exception: the futures it
\* has not reached are cancelled, which stops those not started.
CancelRest(b) ==
    [b EXCEPT !.future = [f \in Files |->
                             IF f > b.main.i /\ @[f] = "pending" THEN "cancelled" ELSE @[f]]]

\* ------------------------------------------------------------------------
\* State
\* ------------------------------------------------------------------------

VARIABLES
    gp_args,    \* the arguments of the call of remove_ground_plane under way
    gp,         \* its locals: pc, exit, k, bb, dy, prev_volume, M_cropped, mesh, found
    sel,        \* select_largest_component: the locals fr of the call under way,
                \* and, when it is the second, the mesh and clusters of the first
    norm_args,  \* the mesh and the options of the call of normalize_mesh under way
    norm,       \* its locals: pc, M, found_ground_plane, trace, result
    files,      \* the input files of the batch run under way
    batch       \* the futures, the calls of process, the paths, and main

vars == <<gp_args, gp, sel, norm_args, norm, files, batch>>

BatchIdle == files = <<>> /\ batch = [main |-> [pc |-> "idle"]]

NormIdle == norm_args = [mesh |-> EmptyMesh] /\ norm = [pc |-> "idle"]

GPIdle == gp_args = [M |-> EmptyMesh] /\ gp = [pc |-> "idle"]

SelIdle == sel = [call |-> 0]

\* ------------------------------------------------------------------------
\* remove_ground_plane, one loop iteration at a time
\* ------------------------------------------------------------------------

GPCall ==
    /\ \E M \in GroundPlaneInputs, n \in ScanSteps,
          frac \in HeightFractions, thr \in Thresholds :
            gp_args = GPArgs(M, n, frac, thr)
    /\ gp = GPEnter(gp_args)

GPIterate ==
    /\ gp.pc = "loop"
    /\ gp.k < gp_args.n_scan_steps
    /\ gp' = GPLoopBody(gp_args, gp)
    /\ UNCHANGED <<gp_args, sel, norm_args, norm, files, batch>>

GPExhausted ==
    /\ gp.pc = "loop"
    /\ gp.k = gp_args.n_scan_steps
    /\ gp' = GPAfterLoop(gp_args, gp)
    /\ UNCHANGED <<gp_args, sel, norm_args, norm, files, batch>>

InitGP == GPCall /\ SelIdle /\ NormIdle /\ BatchIdle

NextGP == GPIterate \/ GPExhausted

SpecGP == InitGP /\ [][NextGP]_vars

\* ------------------------------------------------------------------------
\* select_largest_component, applied again to the mesh it returned
\* ------------------------------------------------------------------------

SelStart ==
    \E M \in SelectInputs :
        sel = [call |-> 1, first |-> [mesh |-> EmptyMesh], fr |-> SelEnter(M)]

SelCluster ==
    /\ sel.fr.pc = "loop"
    /\ sel.fr.cluster < Len(sel.fr.cluster_n_triangles)
    /\ \E volume \in Volumes : sel' = [sel EXCEPT !.fr = SelLoopBody(sel.fr, volume)]
    /\ UNCHANGED <<gp_args, gp, norm_args, norm, files, batch>>

SelReturn ==
    /\ sel.fr.pc = "loop"
    /\ sel.fr.cluster = Len(sel.fr.cluster_n_triangles)
    /\ sel' = [sel EXCEPT !.fr = SelAfterLoop(sel.fr)]
    /\ UNCHANGED <<gp_args, gp, norm_args, norm, files, batch>>

\* select_largest_component is called on the mesh it has just returned.
SelAgain ==
    /\ sel.fr.pc = "returned"
    /\ sel.call = 1
    /\ sel' = [call  |-> 2,
               first |-> [M                   |-> sel.fr.M,
                          triangle_clusters   |-> sel.fr.triangle_clusters,
                          cluster_n_triangles |-> sel.fr.cluster_n_triangles,
                          mesh                |-> sel.fr.mesh],
               fr    |-> SelEnter(sel.fr.mesh)]
    /\ UNCHANGED <<gp_args, gp, norm_args, norm, files, batch>>

InitSel == SelStart /\ GPIdle /\ NormIdle /\ BatchIdle

NextSel == SelCluster \/ SelReturn \/ SelAgain

SpecSel == InitSel /\ [][NextSel]_vars

\* ------------------------------------------------------------------------
\* MeshCloser.normalize_mesh, one stage at a time
\* ------------------------------------------------------------------------

NormCall ==
    /\ \E mesh \in NormInputs, voxels \in SimplificationVoxels, n \in ScanSteps,
          frac \in HeightFractions, thr \in Thresholds :
            norm_args = NormArgs(mesh, voxels, n, frac, thr)
    /\ norm = NormEnter(norm_args)

NormSimplify ==
    /\ norm.pc = "simplify"
    /\ norm' \in NormSimplifyOutcomes(norm, norm_args)
    /\ UNCHANGED <<gp_args, gp, sel, norm_args, files, batch>>

NormSelect ==
    /\ norm.pc = "select"
    /\ norm' \in NormSelectOutcomes(norm, "ground")
    /\ UNCHANGED <<gp_args, gp, sel, norm_args, files, batch>>

NormGround ==
    /\ norm.pc = "ground"
    /\ norm' = NormGroundOutcome(norm, norm_args)
    /\ UNCHANGED <<gp_args, gp, sel, norm_args, files, batch>>

NormSelectAgain ==
    /\ norm.pc = "select_again"
    /\ norm' \in NormSelectOutcomes(norm, "return")
    /\ UNCHANGED <<gp_args, gp, sel, norm_args, files, batch>>

NormReturn ==
    /\ norm.pc = "return"
    /\ norm' = NormReturnOutcome(norm)
    /\ UNCHANGED <<gp_args, gp, sel, norm_args, files, batch>>

InitNorm == NormCall /\ GPIdle /\ SelIdle /\ BatchIdle

NextNorm == NormSimplify \/ NormSelect \/ NormGround \/ NormSelectAgain \/ NormReturn

SpecNorm == InitNorm /\ [][NextNorm]_vars

\* ------------------------------------------------------------------------
\* MeshCloser.main: thread_map over process, one step of one thread at a time
\* ------------------------------------------------------------------------

\* glob.glob(...), and thread_map submitting process for every file.
MainCall ==
    /\ files \in [Files -> FileKinds]
    /\ batch = BatchEnter(files)

\* A free thread of the pool takes the first future in the queue.
WorkerStart(f) ==
    /\ f \in Pending(batch)
    /\ \A g \in Pending(batch) : f <= g
    /\ Cardinality(Running(batch)) < MaxWorkers
    /\ batch' = [batch EXCEPT !.future[f] = "running", !.pc[f] = "exists"]
    /\ UNCHANGED <<gp_args, gp, sel, norm_args, norm, files>>

\* if os.path.exists(output_path): return output_path
ProcessExists(f) ==
    /\ batch.pc[f] = "exists"
    /\ batch' = IF batch.output[f] THEN Returns(batch, f)
                ELSE [batch EXCEPT !.pc[f] = "close_mesh"]
    /\ UNCHANGED <<gp_args, gp, sel, norm_args, norm, files>>

\* self.close_mesh(input_path, close_output_path): manifold runs, and a
\* non-zero return code is printed; close_mesh returns either way.
ProcessCloseMesh(f) ==
    /\ batch.pc[f] = "close_mesh"
    /\ batch' = [batch EXCEPT !.closed[f] = files[f].closed,
                              !.printed[f] = (files[f].returncode # 0),
                              !.pc[f] = "load"]
    /\ UNCHANGED <<gp_args, gp, sel, norm_args, norm, files>>

\* mesh = trimesh.load(close_output_path, force="mesh"), which raises when
\* there is no such file.
ProcessLoad(f) ==
    /\ batch.pc[f] = "load"
    /\ batch' = IF batch.closed[f].exists
                THEN [batch EXCEPT !.mesh[f] = batch.closed[f].mesh,
                                   !.loaded[f] = TRUE, !.pc[f] = "normalize"]
                ELSE Raises(batch, f)
    /\ UNCHANGED <<gp_args, gp, sel, norm_args, norm, files>>

\* mesh = self.normalize_mesh(mesh)
ProcessNormalize(f) ==
    /\ batch.pc[f] = "normalize"
    /\ \E end \in NormalizeOutcomes[batch.mesh[f]] :
          batch' = IF end.pc = "returned"
                   THEN [batch EXCEPT !.mesh[f] = end.result,
                                      !.normalized[f] = TRUE, !.pc[f] = "write"]
                   ELSE Raises(batch, f)
    /\ UNCHANGED <<gp_args, gp, sel, norm_args, norm, files>>

\* with gzip.open(output_path, "wb") as f: f.write(...)
ProcessWrite(f) ==
    /\ batch.pc[f] = "write"
    /\ batch' = [batch EXCEPT !.output[f] = TRUE, !.wrote[f] = TRUE, !.pc[f] = "remove"]
    /\ UNCHANGED <<gp_args, gp, sel, norm_args, norm, files>>

\* os.remove(close_output_path); return output_path
ProcessRemove(f) ==
    /\ batch.pc[f] = "remove"
    /\ batch' = Returns([batch EXCEPT !.closed[f] = NoFile], f)
    /\ UNCHANGED <<gp_args, gp, sel, norm_args, norm, files>>

\* thread_map collects the results in the order of the files; once it has
\* them all it returns their list.
MainCollect ==
    /\ batch.main.pc = "map"
    /\ batch.main.i <= NFiles
    /\ batch.future[batch.main.i] = "finished"
    /\ batch' = [batch EXCEPT !.main.i = @ + 1,
                              !.main.pc = IF batch.main.i = NFiles THEN "write" ELSE "map"]
    /\ UNCHANGED <<gp_args, gp, sel, norm_args, norm, files>>

\* The result it waits for is an exception: the exception leaves thread_map,
\* cancelling on its way the futures not yet started.
MainCollectRaises ==
    /\ batch.main.pc = "map"
    /\ batch.main.i <= NFiles
    /\ batch.future[batch.main.i] = "raised"
    /\ batch' = [CancelRest(batch) EXCEPT !.main.pc = "shutdown"]
    /\ UNCHANGED <<gp_args, gp, sel, norm_args, norm, files>>

\* The pool is shut down once its threads are through with what they run,
\* and the exception leaves main.
MainShutdown ==
    /\ batch.main.pc = "shutdown"
    /\ Running(batch) = {}
    /\ batch' = [batch EXCEPT !.main.pc = "raised"]
    /\ UNCHANGED <<gp_args, gp, sel, norm_args, norm, files>>

\* for output_path in ...: if output_path is not None: tqdm.write(output_path)
MainWrite ==
    /\ batch.main.pc = "write"
    /\ batch' = IF batch.main.written < NFiles
                THEN [batch EXCEPT !.main.written = @ + 1]
                ELSE [batch EXCEPT !.main.pc = "done"]
    /\ UNCHANGED <<gp_args, gp, sel, norm_args, norm, files>>

Init == MainCall /\ GPIdle /\ SelIdle /\ NormIdle

Next ==
    \/ \E f \in Files :
          \/ WorkerStart(f)
          \/ ProcessExists(f)
          \/ ProcessCloseMesh(f)
          \/ ProcessLoad(f)
          \/ ProcessNormalize(f)
          \/ ProcessWrite(f)
          \/ ProcessRemove(f)
    \/ MainCollect
    \/ MainCollectRaises
    \/ MainShutdown
    \/ MainWrite

Spec == Init /\ [][Next]_vars

\* ------------------------------------------------------------------------
\* Claims about remove_ground_plane (checked under SpecGP)
\* ------------------------------------------------------------------------

\* The input's box moved up by k steps of dy, computed from the input alone.
BoxAtStep(args, k) ==
    Translate(GetAxisAlignedBoundingBox(args.M, Dy(args).den), k * Dy(args).num)

\* The crop of the input mesh at step k, computed from the input alone.
CropAtStep(args, k) == Crop(args.M, BoxAtStep(args, k))

\* The volume the crop of step k is compared against: the input's at step 1,
\* the volume of the crop of step k - 1 at a later step.
ComparedVolume(args, k) ==
    IF k = 1 THEN AABBVolume(args.M) ELSE AABBVolume(CropAtStep(args, k - 1))

\* C1: when remove_ground_plane returns found = false, through the break on a
\* crop of fewer than 4 vertices or through the end of the loop, the mesh it
\* returns is the input mesh, vertex for vertex and triangle for triangle.
C1_NotFoundReturnsInput ==
    (gp.pc = "returned" /\ ~gp.found) =>
        /\ gp.exit \in {"break", "exhausted"}
        /\ gp.mesh = gp_args.M

\* A call that ran out of steps, after crops that differ from the input.
C1_Witness ==
    /\ gp.pc = "returned" /\ ~gp.found /\ gp.exit = "exhausted"
    /\ gp.k >= 2
    /\ gp.M_cropped # gp_args.M
    /\ NVertices(gp.M_cropped) >= MinCropVertices

\* A call stopped by a crop of fewer than 4 vertices, at a later step than
\* the first.
C1_WitnessBreak ==
    /\ gp.pc = "returned" /\ ~gp.found /\ gp.exit = "break"
    /\ gp.k >= 2
    /\ NVertices(gp_args.M) >= MinCropVertices

\* C2: when remove_ground_plane returns found = true, the mesh it returns is
\* the crop of the step that fired, that crop has at least 4 vertices, and its
\* box volume over the volume it was compared against (the input's at step 1,
\* the previous crop's later) is strictly below the threshold.
C2_FoundIsFiringCrop ==
    (gp.pc = "returned" /\ gp.found) =>
        /\ gp.exit = "fired"
        /\ gp.k \in 1..gp_args.n_scan_steps
        /\ gp.mesh = CropAtStep(gp_args, gp.k)
        /\ NVertices(gp.mesh) >= MinCropVertices
        /\ ComparedVolume(gp_args, gp.k) > 0
        /\ AABBVolume(gp.mesh) * gp_args.volume_reduction_threshold.den
             < gp_args.volume_reduction_threshold.num * ComparedVolume(gp_args, gp.k)

\* A call that fired at a later step than the first, on a crop with a volume,
\* where the comparison against the input's volume would have fired earlier.
C2_Witness ==
    /\ gp.pc = "returned" /\ gp.found
    /\ gp.k >= 3
    /\ AABBVolume(gp.mesh) > 0
    /\ ComparedVolume(gp_args, gp.k) < AABBVolume(gp_args.M)

C11_FlatCropFires ==
    /\ gp.pc = "returned" /\ gp.exit = "fired"
    /\ AABBVolume(gp_args.M) > 0
    /\ NVertices(gp.mesh) >= MinCropVertices
    /\ AABBVolume(gp.mesh) = 0

\* ------------------------------------------------------------------------
\* Claims about select_largest_component (checked under SpecSel)
\* ------------------------------------------------------------------------

\* The triangles labelled c.
LabelledTriangles(labels, c) == {t \in 1..Len(labels) : labels[t] = c}

\* The clusters of M passing the size floor, labels[t] being the cluster of
\* triangle t: those of more than 6 triangles, and of more than 6 vertices
\* among those their triangles reference.
PassingIn(M, labels) ==
    {c \in SeqToSet(labels) :
        /\ Cardinality(LabelledTriangles(labels, c)) > SizeFloor
        /\ Cardinality(Referenced(M, LabelledTriangles(labels, c))) > SizeFloor}

\* The clusters passing the floor in the mesh of the call under way, by the
\* labels cluster_connected_triangles gave it.
Passing == PassingIn(sel.fr.M, sel.fr.triangle_clusters)

\* The corner points of the triangles numbered in ts, in the order of ts.
TrianglePoints(M, ts) ==
    [j \in 1..Cardinality(ts) |->
        [c \in 1..3 |-> M.vertices[M.triangles[SortedSeq(ts)[j]][c]]]]

\* R is made of exactly the triangles of M numbered in ts: the same triangles
\* over the same points, and no vertex besides theirs.
IsMadeOf(R, M, ts) ==
    /\ TrianglePoints(R, 1..NTriangles(R)) = TrianglePoints(M, ts)
    /\ Referenced(R, 1..NTriangles(R)) = 1..NVertices(R)
    /\ Cardinality(SeqToSet(R.vertices)) = NVertices(R)

\* C4: when the size floor rejects every cluster, a mesh without triangles
\* included, select_largest_component returns the mesh it was given.
C4_NoViableComponentReturnsInput ==
    (sel.fr.pc = "returned" /\ Passing = {}) => sel.fr.mesh = sel.fr.M

\* A returned call on a mesh of several clusters, one of more than 6
\* triangles, none passing the floor, and with a vertex no triangle uses.
C4_Witness ==
    /\ sel.call = 1 /\ sel.fr.pc = "returned"
    /\ Passing = {}
    /\ Len(sel.fr.cluster_n_triangles) >= 2
    /\ \E c \in 1..Len(sel.fr.cluster_n_triangles) :
          sel.fr.cluster_n_triangles[c] > SizeFloor
    /\ Referenced(sel.fr.M, 1..NTriangles(sel.fr.M)) # 1..NVertices(sel.fr.M)

\* A returned call on a mesh with vertices and no triangle.
C4_WitnessNoTriangles ==
    /\ sel.call = 1 /\ sel.fr.pc = "returned"
    /\ NTriangles(sel.fr.M) = 0 /\ NVertices(sel.fr.M) > 0

C6_SelectIdempotent ==
    (sel.call = 2 /\ sel.fr.pc = "returned"
        /\ PassingIn(sel.first.M, sel.first.triangle_clusters) # {}) =>
            sel.fr.mesh = sel.first.mesh

\* A second call returned, on the result of a first call that chose among
\* several clusters passing the floor and dropped part of its input.
C6_Witness ==
    /\ sel.call = 2 /\ sel.fr.pc = "returned"
    /\ Cardinality(PassingIn(sel.first.M, sel.first.triangle_clusters)) >= 2
    /\ Len(sel.first.cluster_n_triangles) >= 3
    /\ sel.first.mesh # sel.first.M
    /\ Len(sel.fr.cluster_ids) = 1

\* ------------------------------------------------------------------------
\* Claims about normalize_mesh (checked under SpecNorm)
\* ------------------------------------------------------------------------

\* The stages of normalize_mesh in the order of its source.
StageOrder == <<"simplify", "select", "ground", "select">>

\* C3: every run of normalize_mesh runs simplify, then
\* select_largest_component, then remove_ground_plane, each on the mesh the
\* stage before it returned (the first on the input mesh);
\* select_largest_component runs a second time, on the mesh
\* remove_ground_plane returned, exactly when remove_ground_plane reported
\* found = true; no stage runs after that, and the mesh returned is the
\* last stage's.
C3_StagesInFixedOrder ==
    LET tr == norm.trace
    IN  /\ Len(tr) <= Len(StageOrder)
        /\ \A i \in 1..Len(tr) :
              /\ tr[i].stage = StageOrder[i]
              /\ tr[i].input = (IF i = 1 THEN norm_args.mesh ELSE tr[i - 1].output)
              /\ i > 1 => tr[i - 1].ok
        /\ Len(tr) = Len(StageOrder) => tr[Len(tr) - 1].found
        /\ norm.pc = "returned" =>
              /\ Len(tr) >= Len(StageOrder) - 1
              /\ (Len(tr) = Len(StageOrder)) = tr[Len(StageOrder) - 1].found
              /\ tr[Len(tr)].ok
              /\ norm.result = TrimeshOf(tr[Len(tr)].output)

\* normalize_mesh returned after a ground plane was found, and the second
\* select_largest_component dropped a fragment the crop had cut loose.
C3_Witness ==
    /\ norm.pc = "returned"
    /\ Len(norm.trace) = Len(StageOrder)
    /\ norm.trace[3].found
    /\ norm.trace[3].output # norm.trace[3].input
    /\ norm.trace[4].input = norm.trace[3].output
    /\ NTriangles(norm.trace[4].output) < NTriangles(norm.trace[4].input)

\* normalize_mesh returned without a ground plane found: three stages ran.
C3_WitnessNotFound ==
    /\ norm.pc = "returned"
    /\ Len(norm.trace) = Len(StageOrder) - 1
    /\ ~norm.trace[3].found

\* C9: a mesh with no vertex, or with a triangle index outside its vertices,
\* is rejected before normalize_mesh runs any stage on it: no stage is ever
\* given it.
C9_MalformedRejectedFirst ==
    Malformed(norm_args.mesh) => norm.trace = <<>>

\* A mesh with a triangle index outside its vertices went through every
\* stage, and normalize_mesh returned a mesh for it.
C9_BadIndexNormalized ==
    /\ HasBadIndex(norm_args.mesh)
    /\ norm.pc = "returned"

\* A mesh with no vertex had its bounds taken by simplify_mesh, which then
\* raised on the voxel size of 0.
C9_EmptySimplified ==
    /\ NVertices(norm_args.mesh) = 0
    /\ Len(norm.trace) = 1
    /\ norm.pc = "raised"

\* ------------------------------------------------------------------------
\* Claims about the batch run (checked under Spec)
\* ------------------------------------------------------------------------

\* C7: once close_mesh has printed that manifold returned a non-zero code for
\* a file, process loads no mesh for that file, normalizes none, and writes
\* no output for it.
C7_FailedCloseSkipsFile ==
    \A f \in DOMAIN files :
        (files[f].returncode # 0 /\ batch.printed[f]) =>
            /\ ~batch.loaded[f]
            /\ ~batch.normalized[f]
            /\ ~batch.wrote[f]

\* manifold returned a non-zero code for a file, close_mesh printed it, and
\* process went on to load what manifold left, normalize it and write it.
C7_FailedCloseWritten ==
    \E f \in DOMAIN files :
        /\ files[f].returncode # 0
        /\ batch.printed[f]
        /\ batch.loaded[f] /\ batch.normalized[f] /\ batch.wrote[f]
        /\ batch.pc[f] = "returned"

\* The file's own pipeline succeeds: manifold returns 0 and leaves a mesh
\* that normalize_mesh returns for.
OwnPipelineSucceeds(file) ==
    /\ file.returncode = 0
    /\ file.closed.exists
    /\ \A end \in NormalizeOutcomes[file.closed.mesh] : end.pc = "returned"

\* main is over: it returned, or an exception left it.
MainOver == batch.main.pc \in {"done", "raised"}

\* C8: when the batch run is over, every file whose own pipeline succeeds has
\* its output, whatever happened to the other files and however the threads
\* interleaved.
C8_FailureLeavesOthersAlone ==
    MainOver => \A f \in DOMAIN files : OwnPipelineSucceeds(files[f]) => batch.output[f]

\* The run is over with an exception out of main: process raised for one
\* file, and a file whose own pipeline succeeds was cancelled before it
\* started and has no output.
C8_SiblingCancelled ==
    /\ batch.main.pc = "raised"
    /\ \E f \in DOMAIN files :
          /\ OwnPipelineSucceeds(files[f])
          /\ batch.future[f] = "cancelled"
          /\ ~batch.output[f]

====
